---- MODULE Spec2Model ----
(***************************************************************************)
(* c-emit: the Code builder of src/src/lib.rs.                             *)
(*                                                                         *)
(* Text is a sequence of one-character strings, so that pushing, trimming  *)
(* and replacing act on characters as they do on a Rust String.  The three *)
(* fields of Code keep their names: code (the body buffer), requires (the  *)
(* inclusion list) and exit.  Three further variables observe the calls:   *)
(* out is the value the last call returned (the text of to_string, or the  *)
(* empty text for the calls that return unit), lastOp names the last call  *)
(* and its arguments, and calls counts the statement-appending calls.      *)
(***************************************************************************)
EXTENDS Integers, Sequences, FiniteSets

VARIABLES code, requires, exit, out, lastOp, calls

vars == <<code, requires, exit, out, lastOp, calls>>

-----------------------------------------------------------------------------
(* Bounds of the model. *)

\* statement-appending calls made on one Code
MaxCalls == 2
\* length of an argument list of call_func_with_args
MaxArgs == 2
\* length of a text literal in the escaping specification
MaxLen == 3

-----------------------------------------------------------------------------
(* Characters and fixed texts. *)

CR == "\r"
LF == "\n"
TAB == "\t"
QUOTE == "\""
BACKSLASH == "\\"
COMMA == ","

stdio_h == <<"s", "t", "d", "i", "o", ".", "h">>
stdbool_h == <<"s", "t", "d", "b", "o", "o", "l", ".", "h">>
printf == <<"p", "r", "i", "n", "t", "f">>
HelloWorld == <<"H", "e", "l", "l", "o", " ", "W", "o", "r", "l", "d", "!">>

-----------------------------------------------------------------------------
(* Text helpers: the String and str methods the code calls. *)

\* str::ends_with
EndsWith(s, suffix) ==
    /\ Len(s) >= Len(suffix)
    /\ SubSeq(s, Len(s) - Len(suffix) + 1, Len(s)) = suffix

\* str::starts_with
StartsWith(s, prefix) ==
    /\ Len(s) >= Len(prefix)
    /\ SubSeq(s, 1, Len(prefix)) = prefix

\* str::replace: every non-overlapping match of pat, left to right
RECURSIVE Replace(_, _, _)
Replace(s, pat, rep) ==
    IF Len(s) < Len(pat) THEN s
    ELSE IF SubSeq(s, 1, Len(pat)) = pat
         THEN rep \o Replace(SubSeq(s, Len(pat) + 1, Len(s)), pat, rep)
         ELSE <<Head(s)>> \o Replace(Tail(s), pat, rep)

Digit(d) == <<"0", "1", "2", "3", "4", "5", "6", "7", "8", "9">>[d + 1]

RECURSIVE Digits(_)
Digits(n) ==
    IF n < 10 THEN <<Digit(n)>>
    ELSE Digits(n \div 10) \o <<Digit(n % 10)>>

\* i32, i64 and usize to_string: decimal, a minus sign for negatives
IntToString(n) ==
    IF n < 0 THEN <<"-">> \o Digits(0 - n) ELSE Digits(n)

RECURSIVE Pow10(_)
Pow10(e) == IF e = 0 THEN 1 ELSE 10 * Pow10(e - 1)

RECURSIVE PadDigits(_, _)
PadDigits(n, width) ==
    IF width = 0 THEN <<>>
    ELSE PadDigits(n \div 10, width - 1) \o <<Digit(n % 10)>>

\* f32 and f64 to_string.  A float is the decimal m * 10^-e with sign neg,
\* m not divisible by 10 when e > 0: Display prints the shortest decimal
\* that reads back as the value, with no fraction when the value is whole.
FloatToString(f) ==
    (IF f.neg THEN <<"-">> ELSE <<>>)
    \o Digits(f.m \div Pow10(f.e))
    \o (IF f.e = 0 THEN <<>>
        ELSE <<".">> \o PadDigits(f.m % Pow10(f.e), f.e))

\* bool to_string
BoolToString(b) == IF b THEN <<"t", "r", "u", "e">> ELSE <<"f", "a", "l", "s", "e">>

-----------------------------------------------------------------------------
(* CArg and VarInit values: records [kind, ty, val]. *)

CArgString(s) == [kind |-> "String", ty |-> "-", val |-> s]
CArgIdent(id) == [kind |-> "Ident", ty |-> "-", val |-> id]
CArgInt32(n) == [kind |-> "Int32", ty |-> "-", val |-> n]
CArgInt64(n) == [kind |-> "Int64", ty |-> "-", val |-> n]
CArgFloat(f) == [kind |-> "Float", ty |-> "-", val |-> f]
CArgDouble(f) == [kind |-> "Double", ty |-> "-", val |-> f]
CArgBool(b) == [kind |-> "Bool", ty |-> "-", val |-> b]
CArgChar(c) == [kind |-> "Char", ty |-> "-", val |-> c]

VarTypes == {"String", "Int32", "Int64", "Float", "Double", "Bool", "Char"}

VarInitString(s) == [kind |-> "String", ty |-> "-", val |-> s]
VarInitIdent(ty, id) == [kind |-> "Ident", ty |-> ty, val |-> id]
VarInitInt32(n) == [kind |-> "Int32", ty |-> "-", val |-> n]
VarInitInt64(n) == [kind |-> "Int64", ty |-> "-", val |-> n]
VarInitFloat(f) == [kind |-> "Float", ty |-> "-", val |-> f]
VarInitDouble(f) == [kind |-> "Double", ty |-> "-", val |-> f]
VarInitBool(b) == [kind |-> "Bool", ty |-> "-", val |-> b]
VarInitChar(c) == [kind |-> "Char", ty |-> "-", val |-> c]
VarInitSizeString(n) == [kind |-> "SizeString", ty |-> "-", val |-> n]

-----------------------------------------------------------------------------
(* The operations of Code, as functions of the fields they read. *)

\* Code::include
IncludeRequires(req, file) ==
    IF \E i \in 1..Len(req) : req[i] = file THEN req
    ELSE Append(req, file)

\* Code::call_func
CallFuncCode(buf, func) ==
    (buf \o func) \o <<"(", ")", ";", LF>>

\* the four replace calls of the CArg::String arm
EscapeString(s) ==
    LET s1 == Replace(s, <<CR, LF>>, <<BACKSLASH, "r", BACKSLASH, "n">>)
        s2 == Replace(s1, <<LF>>, <<BACKSLASH, "n">>)
        s3 == Replace(s2, <<TAB>>, <<BACKSLASH, "t">>)
        s4 == Replace(s3, <<QUOTE>>, <<BACKSLASH, QUOTE>>)
    IN  s4

\* one arm of the match in call_func_with_args: what is pushed for arg
PushArg(buf, arg) ==
    CASE arg.kind = "String" -> ((buf \o <<QUOTE>>) \o EscapeString(arg.val)) \o <<QUOTE>>
      [] arg.kind = "Ident"  -> buf \o arg.val
      [] arg.kind = "Int32"  -> buf \o IntToString(arg.val)
      [] arg.kind = "Int64"  -> buf \o IntToString(arg.val)
      [] arg.kind = "Float"  -> buf \o FloatToString(arg.val)
      [] arg.kind = "Double" -> buf \o FloatToString(arg.val)
      [] arg.kind = "Bool"   -> buf \o BoolToString(arg.val)
      [] arg.kind = "Char"   -> Append(buf, arg.val)

\* the for loop of call_func_with_args: each argument, then a comma
RECURSIVE PushArgs(_, _)
PushArgs(buf, args) ==
    IF args = <<>> THEN buf
    ELSE PushArgs(Append(PushArg(buf, Head(args)), COMMA), Tail(args))

\* faulty variant of StripTrailingComma: trim_end_matches(','), which
\* removes every trailing comma
RECURSIVE StripAllTrailingCommas(_)
StripAllTrailingCommas(buf) ==
    IF EndsWith(buf, <<COMMA>>)
    THEN StripAllTrailingCommas(SubSeq(buf, 1, Len(buf) - 1))
    ELSE buf

\* if self.code.ends_with(',') { self.code = strip_suffix(',') }
StripTrailingComma(buf) ==
    IF EndsWith(buf, <<COMMA>>) THEN SubSeq(buf, 1, Len(buf) - 1) ELSE buf

\* faulty variant of CallFuncWithArgsCode: the statement is built in a
\* buffer of its own and assigned to self.code, not appended
CallFuncWithArgsCodeAssigns(buf, func, args) ==
    StripTrailingComma(PushArgs(Append(func, "("), args))
    \o <<")", ";", LF>>

\* Code::call_func_with_args
CallFuncWithArgsCode(buf, func, args) ==
    StripTrailingComma(PushArgs(Append(buf \o func, "("), args))
    \o <<")", ";", LF>>

\* the type keyword of the VarInit::Ident arm
TypeKeyword(ty) ==
    CASE ty = "String" -> <<"c", "h", "a", "r", " ">>
      [] ty = "Int32"  -> <<"i", "n", "t", " ">>
      [] ty = "Int64"  -> <<"i", "n", "t", " ">>
      [] ty = "Float"  -> <<"f", "l", "o", "a", "t", " ">>
      [] ty = "Double" -> <<"d", "o", "u", "b", "l", "e", " ">>
      [] ty = "Bool"   -> <<"b", "o", "o", "l", " ">>
      [] ty = "Char"   -> <<"c", "h", "a", "r", " ">>

\* Code::new_var: the body buffer
NewVarCode(buf, name, value) ==
    CASE value.kind = "String" ->
            ((((buf \o <<"c", "h", "a", "r", " ">>) \o name)
              \o <<"[", "]", "=", QUOTE>>) \o value.val) \o <<QUOTE, ";", LF>>
      [] value.kind = "Ident" ->
            ((((buf \o TypeKeyword(value.ty)) \o name)
              \o (IF value.ty = "String" THEN <<"[", "]">> ELSE <<>>))
             \o <<"=">>) \o value.val \o <<";", LF>>
      [] value.kind = "Bool" ->
            (((buf \o <<"b", "o", "o", "l", " ">>) \o name) \o <<"=">>)
            \o BoolToString(value.val) \o <<";", LF>>
      [] value.kind = "Char" ->
            (((buf \o <<"c", "h", "a", "r", " ">>) \o name) \o <<"=", "'">>)
            \o <<value.val>> \o <<"'", ";", LF>>
      [] value.kind = "Double" ->
            (((buf \o <<"d", "o", "u", "b", "l", "e", " ">>) \o name) \o <<"=">>)
            \o FloatToString(value.val) \o <<";", LF>>
      [] value.kind = "Float" ->
            (((buf \o <<"f", "l", "o", "a", "t", " ">>) \o name) \o <<"=">>)
            \o FloatToString(value.val) \o <<";", LF>>
      [] value.kind = "Int32" ->
            (((buf \o <<"i", "n", "t", " ">>) \o name) \o <<"=">>)
            \o IntToString(value.val) \o <<";", LF>>
      [] value.kind = "Int64" ->
            (((buf \o <<"i", "n", "t", " ">>) \o name) \o <<"=">>)
            \o IntToString(value.val) \o <<";", LF>>
      [] value.kind = "SizeString" ->
            (((buf \o <<"c", "h", "a", "r", " ">>) \o name) \o <<"[">>)
            \o IntToString(value.val) \o <<"]", ";", LF>>

\* faulty variant of NewVarRequires: the push of the VarTypes::Bool arm
\* made for every VarInit::Ident
NewVarRequiresAnyIdent(req, value) ==
    IF value.kind = "Bool" \/ value.kind = "Ident"
    THEN Append(req, stdbool_h)
    ELSE req

\* Code::new_var: the inclusion list (the two self.requires.push calls)
NewVarRequires(req, value) ==
    IF \/ value.kind = "Bool"
       \/ (value.kind = "Ident" /\ value.ty = "Bool")
    THEN Append(req, stdbool_h)
    ELSE req

\* the for loop of Display::fmt
RECURSIVE RequireString(_)
RequireString(req) ==
    IF req = <<>> THEN <<>>
    ELSE ((<<"#", "i", "n", "c", "l", "u", "d", "e", "<">> \o Head(req)) \o <<">", LF>>)
         \o RequireString(Tail(req))

\* faulty variant of Fmt: write! in place of writeln!
FmtNoLineBreak(req, buf, ex) ==
    RequireString(req)
    \o <<"i", "n", "t", " ", "m", "a", "i", "n", "(", ")", " ", "{", LF>>
    \o buf
    \o <<"r", "e", "t", "u", "r", "n", " ">> \o IntToString(ex) \o <<";", LF>>
    \o <<"}">>

\* Display::fmt: writeln!(f, "{}int main() {{\n{}return {};\n}}", ...)
Fmt(req, buf, ex) ==
    RequireString(req)
    \o <<"i", "n", "t", " ", "m", "a", "i", "n", "(", ")", " ", "{", LF>>
    \o buf
    \o <<"r", "e", "t", "u", "r", "n", " ">> \o IntToString(ex) \o <<";", LF>>
    \o <<"}">>
    \o <<LF>>

-----------------------------------------------------------------------------
(* The calls, as actions. *)

Op(op, name, arg) == [op |-> op, name |-> name, arg |-> arg]

\* Code::new
Init ==
    /\ code = <<>>
    /\ requires = <<>>
    /\ exit = 0
    /\ out = <<>>
    /\ lastOp = Op("new", <<>>, <<>>)
    /\ calls = 0

\* faulty variant of Exit: self.exit += code
ExitAccumulates(c) ==
    /\ exit' = exit + c
    /\ out' = <<>>
    /\ lastOp' = Op("exit", <<>>, c)
    /\ UNCHANGED <<code, requires, calls>>

\* Code::exit
Exit(c) ==
    /\ exit' = c
    /\ out' = <<>>
    /\ lastOp' = Op("exit", <<>>, c)
    /\ UNCHANGED <<code, requires, calls>>

\* Code::include
Include(file) ==
    /\ requires' = IncludeRequires(requires, file)
    /\ out' = <<>>
    /\ lastOp' = Op("include", file, <<>>)
    /\ UNCHANGED <<code, exit, calls>>

\* Code::call_func
CallFunc(func) ==
    /\ code' = CallFuncCode(code, func)
    /\ out' = <<>>
    /\ lastOp' = Op("call_func", func, <<>>)
    /\ calls' = calls + 1
    /\ UNCHANGED <<requires, exit>>

\* Code::call_func_with_args
CallFuncWithArgs(func, args) ==
    /\ code' = CallFuncWithArgsCode(code, func, args)
    /\ out' = <<>>
    /\ lastOp' = Op("call_func_with_args", func, args)
    /\ calls' = calls + 1
    /\ UNCHANGED <<requires, exit>>

\* Code::new_var
NewVar(name, value) ==
    /\ code' = NewVarCode(code, name, value)
    /\ requires' = NewVarRequires(requires, value)
    /\ out' = <<>>
    /\ lastOp' = Op("new_var", name, value)
    /\ calls' = calls + 1
    /\ UNCHANGED exit

\* faulty variant of Display: the body is moved out of self (mem::take)
DisplayTakesBody ==
    /\ out' = Fmt(requires, code, exit)
    /\ code' = <<>>
    /\ lastOp' = Op("to_string", <<>>, <<>>)
    /\ UNCHANGED <<requires, exit, calls>>

\* to_string: Display::fmt takes &self
Display ==
    /\ out' = Fmt(requires, code, exit)
    /\ lastOp' = Op("to_string", <<>>, <<>>)
    /\ UNCHANGED <<code, requires, exit, calls>>

-----------------------------------------------------------------------------
(* Spec: any sequence of calls on a fresh Code, at most MaxCalls of them    *)
(* appending a statement.                                                   *)

IncludeFiles == {stdio_h, stdbool_h}
ExitCodes == {0, 1, -7}
FuncNames == {printf}
VarNames == {<<"v">>}
Half == [neg |-> FALSE, m |-> 15, e |-> 1]
MinusQuarter == [neg |-> TRUE, m |-> 25, e |-> 2]

\* the argument lists of the examples, and the two the comma handling and
\* the character arm are about
ArgLists ==
    { <<>>,
      <<CArgString(HelloWorld)>>,
      <<CArgString(<<"%", "s">>), CArgIdent(<<"a">>)>>,
      <<CArgIdent(<<"a", COMMA>>)>>,
      <<CArgChar("c")>> }

\* every VarInit variant, and VarInit::Ident with every VarTypes
VarInits ==
    { VarInitString(<<"X">>), VarInitInt32(2147483647), VarInitInt64(-7),
      VarInitFloat(Half), VarInitDouble(MinusQuarter), VarInitBool(TRUE),
      VarInitChar("c"), VarInitSizeString(5) }
    \cup { VarInitIdent(ty, <<"s">>) : ty \in VarTypes }

Next ==
    \/ \E c \in ExitCodes : Exit(c)
    \/ \E file \in IncludeFiles : Include(file)
    \/ calls < MaxCalls /\ \E func \in FuncNames : CallFunc(func)
    \/ calls < MaxCalls /\ \E func \in FuncNames, args \in ArgLists :
           CallFuncWithArgs(func, args)
    \/ calls < MaxCalls /\ \E name \in VarNames, value \in VarInits :
           NewVar(name, value)
    \/ Display

Spec == Init /\ [][Next]_vars

-----------------------------------------------------------------------------
(* SpecArgs: up to MaxCalls calls of call_func on a fresh Code, then one    *)
(* call of call_func_with_args with any list of at most MaxArgs arguments   *)
(* of any kind.                                                             *)

RECURSIVE SeqsUpTo(_, _)
SeqsUpTo(S, n) ==
    IF n = 0 THEN {<<>>}
    ELSE SeqsUpTo(S, n - 1) \cup [1..n -> S]

Two == [neg |-> FALSE, m |-> 2, e |-> 0]

\* every CArg variant; an identifier that ends in a comma, an empty one, and
\* the comma as a character
\* (the i64 value stays within the 32-bit integers TLC computes with)
ArgPool ==
    { CArgString(<<"a">>), CArgIdent(<<"x">>), CArgIdent(<<"x", COMMA>>),
      CArgIdent(<<>>), CArgInt32(-7), CArgInt64(2147483647), CArgFloat(Half),
      CArgDouble(Two), CArgBool(TRUE), CArgBool(FALSE), CArgChar("c"),
      CArgChar(COMMA) }

ArgFuncNames == {<<"f">>, <<"f", COMMA>>}

NextArgs ==
    \/ /\ calls < MaxCalls
       /\ lastOp.op # "call_func_with_args"
       /\ \E func \in ArgFuncNames : CallFunc(func)
    \/ /\ lastOp.op # "call_func_with_args"
       /\ \E func \in ArgFuncNames, args \in SeqsUpTo(ArgPool, MaxArgs) :
              CallFuncWithArgs(func, args)

SpecArgs == Init /\ [][NextArgs]_vars

-----------------------------------------------------------------------------
(* SpecText: one text literal of at most MaxLen characters, given to a      *)
(* fresh Code as a call argument or as a variable initializer.              *)

TextAlphabet == {CR, LF, TAB, QUOTE, BACKSLASH, "r", "n", "t"}
Texts == SeqsUpTo(TextAlphabet, MaxLen)

NextText ==
    \/ /\ lastOp.op = "new"
       /\ \E s \in Texts : CallFuncWithArgs(<<"f">>, <<CArgString(s)>>)
    \/ /\ lastOp.op = "new"
       /\ \E s \in Texts : NewVar(<<"v">>, VarInitString(s))

SpecText == Init /\ [][NextText]_vars

-----------------------------------------------------------------------------
(* Helpers of the properties. *)

BodyOps == {"call_func", "call_func_with_args", "new_var"}

IsBoolDecl(value) ==
    \/ value.kind = "Bool"
    \/ (value.kind = "Ident" /\ value.ty = "Bool")

\* the number of places where pat occurs in s
Occurrences(s, pat) ==
    Cardinality({i \in 1..(Len(s) - Len(pat) + 1) :
                    SubSeq(s, i, i + Len(pat) - 1) = pat})

RECURSIVE Flatten(_)
Flatten(ss) == IF ss = <<>> THEN <<>> ELSE Head(ss) \o Flatten(Tail(ss))

IncludePrefix == <<"#", "i", "n", "c", "l", "u", "d", "e", "<">>
MainOpen == <<"i", "n", "t", " ", "m", "a", "i", "n", "(", ")", " ", "{",
              LF>>
ReturnWord == <<"r", "e", "t", "u", "r", "n">>
CharDecl == <<"c", "h", "a", "r", " ">>

\* one #include line per entry, in stored order
IncludeLines(req) ==
    Flatten([i \in 1..Len(req) |-> (IncludePrefix \o req[i]) \o <<">", LF>>])

\* the layout of the rendered program
ExpectedRender ==
    IncludeLines(requires) \o MainOpen \o code
    \o ReturnWord \o <<" ">> \o IntToString(exit) \o <<";", LF>> \o <<"}", LF>>

EmptyProgram ==
    <<"i", "n", "t", " ", "m", "a", "i", "n", "(", ")", " ", "{", LF,
      "r", "e", "t", "u", "r", "n", " ", "0", ";", LF, "}", LF>>

HelloWorldBody ==
    <<"p", "r", "i", "n", "t", "f", "(", QUOTE, "H", "e", "l", "l", "o",
      " ", "W", "o", "r", "l", "d", "!", QUOTE, ")", ";", LF>>

HelloWorldProgram ==
    <<"#", "i", "n", "c", "l", "u", "d", "e", "<", "s", "t", "d", "i",
      "o", ".", "h", ">", LF, "i", "n", "t", " ", "m", "a", "i", "n",
      "(", ")", " ", "{", LF, "p", "r", "i", "n", "t", "f", "(", QUOTE,
      "H", "e", "l", "l", "o", " ", "W", "o", "r", "l", "d", "!", QUOTE,
      ")", ";", LF, "r", "e", "t", "u", "r", "n", " ", "1", ";", LF, "}",
      LF>>

\* the text of one argument
RenderArg(arg) == PushArg(<<>>, arg)

\* the argument texts with one comma between neighbours
RECURSIVE JoinArgs(_)
JoinArgs(args) ==
    IF args = <<>> THEN <<>>
    ELSE IF Len(args) = 1 THEN RenderArg(args[1])
    ELSE (RenderArg(Head(args)) \o <<COMMA>>) \o JoinArgs(Tail(args))

\* the inverse substitutions of the text-literal escaping
UnescapeString(e) ==
    LET e1 == Replace(e, <<BACKSLASH, "r", BACKSLASH, "n">>, <<CR, LF>>)
        e2 == Replace(e1, <<BACKSLASH, "n">>, <<LF>>)
        e3 == Replace(e2, <<BACKSLASH, "t">>, <<TAB>>)
        e4 == Replace(e3, <<BACKSLASH, QUOTE>>, <<QUOTE>>)
    IN  e4

-----------------------------------------------------------------------------
(* The properties. *)

\* C1: the inclusion list never holds a name twice, so the rendered program
\* has one #include line per distinct name; stdbool.h in particular is
\* rendered once however many boolean declarations and include calls add it.
C1_NoDuplicateInclusions ==
    /\ \A i, j \in 1..Len(requires) : requires[i] = requires[j] => i = j
    /\ lastOp.op = "to_string" =>
           Occurrences(out, IncludePrefix \o stdbool_h) <= 1

\* C2: to_string returns the #include lines in stored order, the line
\* int main() {, the body verbatim, return <exit>; and the closing brace
\* line; a fresh Code gives the empty program, the text ends with exactly
\* one line break, and the hello-world calls give the documented text.
C2_RenderLayout ==
    lastOp.op = "to_string" =>
        /\ out = ExpectedRender
        /\ EndsWith(out, <<"}", LF>>)
        /\ (requires = <<>> /\ code = <<>> /\ exit = 0) => out = EmptyProgram
        /\ (requires = <<stdio_h>> /\ code = HelloWorldBody /\ exit = 1) =>
               out = HelloWorldProgram

C2_Witness ==
    /\ lastOp.op = "to_string"
    /\ requires = <<stdio_h>>
    /\ code = HelloWorldBody
    /\ exit = 1

\* C3: a text literal given as a variable initializer is emitted as the
\* same literal given as a call argument is: quoted and escaped.
C3_InitializerEscaped ==
    (lastOp.op = "new_var" /\ lastOp.arg.kind = "String") =>
        code = ((CharDecl \o lastOp.name) \o <<"[", "]", "=">>)
               \o RenderArg(CArgString(lastOp.arg.val)) \o <<";", LF>>

\* C4: a character is emitted between single quotes, as a call argument
\* (f('c');) and as a variable initializer (char name='c';).
C4_CharQuoted ==
    /\ (/\ lastOp.op = "call_func_with_args"
        /\ Len(lastOp.arg) = 1
        /\ lastOp.arg[1].kind = "Char") =>
           EndsWith(code, lastOp.name
                          \o <<"(", "'", lastOp.arg[1].val, "'", ")", ";", LF>>)
    /\ (lastOp.op = "new_var" /\ lastOp.arg.kind = "Char") =>
           EndsWith(code, (CharDecl \o lastOp.name)
                          \o <<"=", "'", lastOp.arg.val, "'", ";", LF>>)

\* C5: a text-literal argument is emitted in double quotes after the four
\* substitutions, the inverse substitutions give the literal back, and no
\* other literal has the same escaped text.
C5_EscapeRoundTrip ==
    lastOp.op = "call_func_with_args" =>
        LET s == lastOp.arg[1].val
            emitted == SubSeq(code, Len(lastOp.name) + 2, Len(code) - 3)
            inner == SubSeq(emitted, 2, Len(emitted) - 1)
        IN  /\ code = (lastOp.name \o <<"(">>) \o emitted \o <<")", ";", LF>>
            /\ emitted = (<<QUOTE>> \o inner) \o <<QUOTE>>
            /\ UnescapeString(inner) = s
            /\ \A t \in Texts : EscapeString(t) = inner => t = s

\* C6: call_func_with_args appends name( then the argument texts joined by
\* single commas, none trailing, then ); and a line break; with no argument
\* it appends what call_func appends.
C6_ArgsJoined ==
    [][lastOp'.op = "call_func_with_args" =>
          /\ code' = ((code \o lastOp'.name) \o <<"(">>)
                     \o JoinArgs(lastOp'.arg) \o <<")", ";", LF>>
          /\ lastOp'.arg = <<>> =>
                 code' = (code \o lastOp'.name) \o <<"(", ")", ";", LF>>
      ]_vars

C6_Witness ==
    /\ lastOp.op = "call_func_with_args"
    /\ lastOp.name = <<"f", COMMA>>
    /\ Len(lastOp.arg) = 2
    /\ lastOp.arg[2] = CArgIdent(<<"x", COMMA>>)
    /\ calls > 1

\* C7: exit holds the argument of the last exit call, 0 before any, and the
\* rendered program has one return statement, with that value.
C7_ExitLastWriteWins ==
    /\ exit = 0
    /\ [][/\ lastOp'.op = "exit" => exit' = lastOp'.arg
          /\ lastOp'.op # "exit" => exit' = exit
          /\ lastOp'.op = "to_string" =>
                 /\ Occurrences(out', ReturnWord) = 1
                 /\ EndsWith(out', ReturnWord \o <<" ">> \o IntToString(exit')
                                   \o <<";", LF, "}", LF>>)
         ]_vars

C7_Witness ==
    /\ lastOp.op = "to_string"
    /\ exit = -7
    /\ calls > 1
    /\ requires # <<>>

\* C8: to_string leaves body, inclusions and exit value as they are, a
\* second to_string in a row returns the same text, and the calls that
\* follow a to_string act as they always do.
C8_RenderIsPureRead ==
    [][/\ lastOp'.op = "to_string" =>
              /\ code' = code /\ requires' = requires /\ exit' = exit
              /\ lastOp.op = "to_string" => out' = out
       /\ lastOp.op = "to_string" =>
              /\ lastOp'.op \in BodyOps => Len(code') > Len(code)
              /\ lastOp'.op = "exit" => exit' = lastOp'.arg
              /\ lastOp'.op = "include" =>
                     \E i \in 1..Len(requires') : requires'[i] = lastOp'.name
      ]_vars

C8_Witness ==
    /\ lastOp.op = "to_string"
    /\ code # <<>>
    /\ requires # <<>>
    /\ exit # 0

\* C9: the body only grows at its end: every call keeps the old body as a
\* prefix, the three statement calls append one fragment that ends in ;
\* and a line break, and include, exit and to_string leave it unchanged.
C9_BodyAppendOnly ==
    /\ [](code = <<>> \/ EndsWith(code, <<LF>>))
    /\ [][/\ StartsWith(code', code)
          /\ lastOp'.op \in BodyOps =>
                 /\ Len(code') > Len(code)
                 /\ EndsWith(code', <<";", LF>>)
                 /\ Occurrences(SubSeq(code', Len(code) + 1, Len(code')),
                                <<";", LF>>) = 1
          /\ lastOp'.op \notin BodyOps => code' = code
         ]_vars

C9_Witness ==
    /\ lastOp.op = "call_func_with_args"
    /\ lastOp.arg = <<CArgIdent(<<"a", COMMA>>)>>
    /\ calls > 1

\* C10: the inclusion list changes only by include (append if absent) and
\* by boolean declarations (stdbool.h is in the list afterwards); no call
\* removes or reorders an entry, and include and new_var keep the exit value.
C10_InclusionFrame ==
    [][/\ StartsWith(requires', requires)
       /\ lastOp'.op = "include" =>
              requires' = IF \E i \in 1..Len(requires) :
                                 requires[i] = lastOp'.name
                          THEN requires
                          ELSE Append(requires, lastOp'.name)
       /\ (lastOp'.op = "new_var" /\ IsBoolDecl(lastOp'.arg)) =>
              \E i \in 1..Len(requires') : requires'[i] = stdbool_h
       /\ (lastOp'.op = "new_var" /\ ~IsBoolDecl(lastOp'.arg)) =>
              requires' = requires
       /\ lastOp'.op \in {"call_func", "call_func_with_args", "exit",
                          "to_string"} => requires' = requires
       /\ lastOp'.op \in {"include", "new_var"} => exit' = exit
      ]_vars

C10_Witness ==
    /\ lastOp.op = "new_var"
    /\ lastOp.arg.kind = "Ident"
    /\ lastOp.arg.ty = "Bool"
    /\ requires = <<stdio_h, stdbool_h>>

====
